---- MODULE Spec2Model ----
(***************************************************************************)
(* Color Memory: the Tk game session (src/src/color_memory.py,             *)
(* ColorMemoryGame) and the stand-alone engine (src/src/game.py,           *)
(* ColorMemoryEngine).                                                     *)
(*                                                                         *)
(* Time is counted in tenths of a second, the countdown's tick.  The Tk    *)
(* event loop is the multiset of callbacks registered with root.after and  *)
(* not yet fired or cancelled; a pending callback may fire at any step.    *)
(***************************************************************************)
EXTENDS Integers, Sequences, FiniteSets, TLC

\* ------------------------------------------------------------------ bounds
\* Rounds played in one session of the game or of the engine.
MaxRound == 2
\* next_round callbacks pending at once in the Tk event loop.
MaxPending == 2

\* ------------------------------------------------------------ constants
\* remaining_time = float(self.round * 3), in tenths of a second.
RoundBudget == 30
\* _toggle_timer: remaining_time = float(self.round * 2), in tenths.
ToggleBudget == 20
\* ColorMemoryEngine.__init__: timer_factor = 3.0 (seconds).
timer_factor == 3

\* The palette: the first entries of COLOR_MAP, name -> colour code.
COLOR_MAP == [w \in {"Rot", "Blau"} |-> IF w = "Rot" THEN "#ff9aa0" ELSE "#8bbcff"]

Words == DOMAIN COLOR_MAP

\* str.casefold on the tokens.
casefold(t) ==
  CASE t = "Rot" -> "rot"
    [] t = "Blau" -> "blau"
    [] t = "Gruen" -> "gruen"
    [] OTHER -> t

\* What the player can type for a word: the name as listed or in lower case.
Tokens == Words \cup {casefold(w) : w \in Words}

FoldAll(ws) == [i \in 1..Len(ws) |-> casefold(ws[i])]

Max(a, b) == IF a >= b THEN a ELSE b

\* sep.join(parts), as the sequence of the parts and the separators between.
RECURSIVE JoinWith(_, _)
JoinWith(parts, sep) ==
  IF Len(parts) <= 1 THEN parts
  ELSE <<Head(parts), sep>> \o JoinWith(Tail(parts), sep)

\* --------------------------------------------------- highscore file format
\* The file content is a sequence of characters; Missing is the absent file.
Missing == <<"<absent>">>

Digits == <<"0", "1", "2", "3", "4", "5", "6", "7", "8", "9">>

IsDigit(c) == \E i \in 1..10 : Digits[i] = c

DigitVal(c) == (CHOOSE i \in 1..10 : Digits[i] = c) - 1

\* str(int(score)) for score >= 0 or < 0.
RECURSIVE NatToStr(_)
NatToStr(n) == IF n < 10 THEN <<Digits[n + 1]>>
               ELSE NatToStr(n \div 10) \o <<Digits[(n % 10) + 1]>>

IntToStr(n) == IF n < 0 THEN <<"-">> \o NatToStr(-n) ELSE NatToStr(n)

\* str.strip: leading and trailing whitespace removed.
IsSpace(c) == c \in {" ", "\n"}

RECURSIVE LStrip(_)
LStrip(s) == IF s # <<>> /\ IsSpace(Head(s)) THEN LStrip(Tail(s)) ELSE s

RECURSIVE RStrip(_)
RStrip(s) == IF s # <<>> /\ IsSpace(s[Len(s)]) THEN RStrip(SubSeq(s, 1, Len(s) - 1)) ELSE s

Strip(s) == RStrip(LStrip(s))

AllDigits(s) == s # <<>> /\ \A i \in 1..Len(s) : IsDigit(s[i])

\* int(raw) succeeds: an optional sign and decimal digits.
IsIntLiteral(s) ==
  \/ AllDigits(s)
  \/ Len(s) >= 2 /\ s[1] \in {"-", "+"} /\ AllDigits(Tail(s))

RECURSIVE DigitsVal(_)
DigitsVal(s) == IF s = <<>> THEN 0
                ELSE DigitsVal(SubSeq(s, 1, Len(s) - 1)) * 10 + DigitVal(s[Len(s)])

ParseInt(s) == IF s[1] = "-" THEN 0 - DigitsVal(Tail(s))
               ELSE IF s[1] = "+" THEN DigitsVal(Tail(s))
               ELSE DigitsVal(s)

\* Mutant: content that is no bare integer is given up at once.
JsonFallback_GivesUp(raw) == 0

\* json.loads(raw) for raw that int() rejected: the record {"score": n}, written
\* here as the characters { s : <int> }, gives its score; {} gives the default 0;
\* anything else raises or is no dict/int, and the load gives up with 0.
JsonFallback(raw) ==
  IF raw = <<"{", "}">> THEN 0
  ELSE IF /\ Len(raw) >= 5
          /\ SubSeq(raw, 1, 3) = <<"{", "s", ":">>
          /\ raw[Len(raw)] = "}"
          /\ IsIntLiteral(SubSeq(raw, 4, Len(raw) - 1))
       THEN Max(0, ParseInt(SubSeq(raw, 4, Len(raw) - 1)))
       ELSE 0

\* A byte that no UTF-8 text holds (0xff).
INVALID_BYTE == "<0xff>"

\* file.read() raises UnicodeDecodeError on such a byte: a ValueError raised
\* outside the inner try, and no OSError, so no handler of the load catches it.
load_raises(content) ==
  content # Missing /\ \E i \in 1..Len(content) : content[i] = INVALID_BYTE

\* _load_highscore: OSError (absent file) -> 0; empty -> 0; int -> max(0, n).
\* The value returned, when the read has not raised.
_load_highscore(content) ==
  IF content = Missing THEN 0
  ELSE LET raw == Strip(content) IN
       IF raw = <<>> THEN 0
       ELSE IF IsIntLiteral(raw) THEN Max(0, ParseInt(raw))
       ELSE JsonFallback(raw)

\* Mutant: the score is written as a record.
WriteFile_AsRecord(content, score, writable) ==
  IF writable THEN <<"{", "s", ":">> \o IntToStr(score) \o <<"}">> ELSE content

\* The write of _save_highscore: the file holds str(int(score)) when the write
\* succeeds and keeps its content when open/write raises OSError (swallowed).
WriteFile(content, score, writable) == IF writable THEN IntToStr(score) ELSE content

\* ------------------------------------------------------------------ state
VARIABLES
  \* ColorMemoryGame's fields
  sequence, round, remaining_time, timer_id, hide_word_id, game_active,
  timer_enabled, highscore,
  \* the widgets the handlers write: "Runde: n", and the word card
  score_label, word_label,
  \* the Tk event loop: how many callbacks of each kind are pending
  after_next_round, after_update_timer, after_conceal_word,
  \* the environment: the content of the highscore file, and whether the file
  \* can be written (when not, open() raises OSError)
  highscore_file, disk_writable,
  \* the music fields of ColorMemoryGame
  music_thread, music_stop_event, music_mode, music_process,
  \* the threads running _music_loop, and the _finalize_music_loop callbacks
  \* pending in the event loop, each with its error_message, oldest first
  music_workers, after_finalize_music_loop,
  \* the environment: whether assets/music.wav is there, and what can play it
  music_file_exists, audio_backend,
  \* a ColorMemoryEngine (its fields), and what its last call returned
  engine, returned

gameVars == <<sequence, round, remaining_time, timer_id, hide_word_id, game_active,
              timer_enabled, highscore, score_label, word_label,
              after_next_round, after_update_timer, after_conceal_word,
              highscore_file, disk_writable>>

musicVars == <<music_thread, music_stop_event, music_mode, music_process,
               music_workers, after_finalize_music_loop,
               music_file_exists, audio_backend>>

vars == <<gameVars, musicVars, engine, returned>>

\* An after() handle held in a field: None, the id of a callback still pending,
\* or the id of a callback that has fired already.
HandleStates == {"None", "pending", "fired"}

\* A feedback message: the text, and for the failure message the score and the
\* " Neuer Highscore!" suffix.  NoFeedback: the handler has shown none.
Message(text) == [text |-> text, score |-> 0, new_highscore |-> FALSE]

NoFeedback == Message("<none>")

Label(kind, words, color) == [kind |-> kind, words |-> words, color |-> color]

TEXT_PRIMARY == "#1f1f1f"

\* The game object as one record, so that a method is a function of it.  The
\* feedback field is what the running handler has passed to _show_feedback: the
\* label's text is written and never read, so it is an output, not state.
Self == [sequence |-> sequence, round |-> round, remaining_time |-> remaining_time,
         timer_id |-> timer_id, hide_word_id |-> hide_word_id,
         game_active |-> game_active, timer_enabled |-> timer_enabled,
         highscore |-> highscore,
         score_label |-> score_label, word_label |-> word_label,
         after_next_round |-> after_next_round,
         after_update_timer |-> after_update_timer,
         after_conceal_word |-> after_conceal_word,
         highscore_file |-> highscore_file, disk_writable |-> disk_writable,
         music_thread |-> music_thread, music_stop_event |-> music_stop_event,
         music_mode |-> music_mode, music_process |-> music_process,
         music_workers |-> music_workers,
         after_finalize_music_loop |-> after_finalize_music_loop,
         music_file_exists |-> music_file_exists, audio_backend |-> audio_backend,
         feedback |-> NoFeedback]

Becomes(result) ==
  \E s \in {result} :
  /\ sequence' = s.sequence
  /\ round' = s.round
  /\ remaining_time' = s.remaining_time
  /\ timer_id' = s.timer_id
  /\ hide_word_id' = s.hide_word_id
  /\ game_active' = s.game_active
  /\ timer_enabled' = s.timer_enabled
  /\ highscore' = s.highscore
  /\ score_label' = s.score_label
  /\ word_label' = s.word_label
  /\ after_next_round' = s.after_next_round
  /\ after_update_timer' = s.after_update_timer
  /\ after_conceal_word' = s.after_conceal_word
  /\ highscore_file' = s.highscore_file
  /\ disk_writable' = s.disk_writable
  /\ music_thread' = s.music_thread
  /\ music_stop_event' = s.music_stop_event
  /\ music_mode' = s.music_mode
  /\ music_process' = s.music_process
  /\ music_workers' = s.music_workers
  /\ after_finalize_music_loop' = s.after_finalize_music_loop
  /\ music_file_exists' = s.music_file_exists
  /\ audio_backend' = s.audio_backend
  /\ UNCHANGED <<engine, returned>>

\* ------------------------------------------------------- ColorMemoryGame
\* Mutant: cancelling a callback that has fired takes one more off the loop.
cancel_timer_CountsFired(s) ==
  IF s.timer_id # "None"
  THEN [s EXCEPT !.after_update_timer = @ - 1, !.timer_id = "None"]
  ELSE s

\* Mutant: the handle is forgotten and the callback is left in the event loop.
cancel_timer_ForgetsOnly(s) == [s EXCEPT !.timer_id = "None"]

cancel_timer(s) ==
  IF s.timer_id # "None"
  THEN [s EXCEPT !.after_update_timer = IF s.timer_id = "pending" THEN @ - 1 ELSE @,
                 !.timer_id = "None"]
  ELSE s

_cancel_word_hide(s) ==
  IF s.hide_word_id # "None"
  THEN [s EXCEPT !.after_conceal_word = IF s.hide_word_id = "pending" THEN @ - 1 ELSE @,
                 !.hide_word_id = "None"]
  ELSE s

_show_feedback(s, message) == [s EXCEPT !.feedback = message]

_clear_feedback(s) == [s EXCEPT !.feedback = Message("")]

\* current = None shows self.round.
_update_score_label(s, current) == [s EXCEPT !.score_label = current]

_save_highscore(s, score) ==
  LET s1 == [s EXCEPT !.highscore_file = WriteFile(@, score, s.disk_writable)]
  IN _update_score_label(s1, s1.round)

\* Mutant: the reset forgets the file.
reset_highscore_MemoryOnly(s) ==
  _show_feedback([s EXCEPT !.highscore = 0], Message("Highscore zurueckgesetzt."))

reset_highscore(s) ==
  LET s1 == [s EXCEPT !.highscore = 0]
      s2 == _save_highscore(s1, s1.highscore)
  IN _show_feedback(s2, Message("Highscore zurueckgesetzt."))

\* The solution argument: None, or "Loesung: " and the joined sequence (a
\* non-empty string whatever the sequence).
NoSolution == [given |-> FALSE, words |-> <<>>]

SolutionText(words) == [given |-> TRUE, words |-> words]

\* The separator " -> " of the solution text (the arrow U+2192 between blanks).
ARROW == " -> "

\* ---- music ----
\* music_thread is "None", or a thread object that is "alive" or "dead".
\* The playback modes; audio_backend is what the platform offers ("none": no
\* afplay and no playsound module).
MusicModes == {"afplay", "playsound"}

NoError == "None"

\* What _music_loop(mode) can set error_message to.
MusicErrors(mode) ==
  IF mode = "afplay"
  THEN {"afplay nicht gefunden.", "Musikwiedergabe fehlgeschlagen."}
  ELSE {"Keine Musikdatei gefunden.", "Musikwiedergabe fehlgeschlagen."}

_start_music(s) ==
  IF s.music_thread = "alive" THEN s
  ELSE IF ~s.music_file_exists
  THEN _show_feedback(s, Message("Keine Musikdatei gefunden."))
  ELSE LET s1 == [s EXCEPT !.music_stop_event = FALSE]
       IN IF s.audio_backend \in MusicModes
          THEN [s1 EXCEPT !.music_mode = s.audio_backend,
                          !.music_thread = "alive",
                          !.music_workers = @ + 1]
          ELSE _show_feedback(s1, Message("Musik nicht verfuegbar."))

\* terminate() ends a running process and does nothing to one that has exited.
_stop_music(s, with_feedback) ==
  LET s1 == [s EXCEPT !.music_stop_event = TRUE]
      s2 == IF s1.music_mode = "afplay" /\ s1.music_process = "running"
            THEN [s1 EXCEPT !.music_process = "exited"]
            ELSE s1
      s3 == [s2 EXCEPT !.music_mode = "None"]
  IN IF with_feedback THEN _show_feedback(s3, Message("Musik gestoppt.")) ELSE s3

\* join(timeout=0.2) waits and changes no field.
_music_cleanup(s) == _stop_music(s, FALSE)

\* _music_loop, the afplay branch: Popen starts the player.
_music_loop_Popen(s) == [s EXCEPT !.music_process = "running"]

\* _music_loop from the end of its loop: the afplay branch terminates a player
\* still running and forgets it, then the finalization is handed to the event
\* loop and the thread ends. referenced: the thread is the one in music_thread.
_music_loop_Leaves(s, mode, error_message, referenced) ==
  LET s1 == IF mode = "afplay" THEN [s EXCEPT !.music_process = "None"] ELSE s
  IN [s1 EXCEPT !.music_workers = @ - 1,
                !.music_thread = IF referenced THEN "dead" ELSE @,
                !.after_finalize_music_loop = Append(@, error_message)]

\* Mutant: the finalization ends the session.
_finalize_music_loop_EndsSession(s, error_message) ==
  LET s1 == [s EXCEPT !.music_thread = "None", !.music_process = "None",
                      !.music_mode = "None", !.game_active = FALSE]
  IN IF error_message # NoError THEN _show_feedback(s1, Message(error_message))
     ELSE IF ~s1.music_stop_event THEN _show_feedback(s1, Message("Musik beendet."))
     ELSE s1

_finalize_music_loop(s, error_message) ==
  LET s1 == [s EXCEPT !.music_thread = "None", !.music_process = "None",
                      !.music_mode = "None"]
  IN IF error_message # NoError THEN _show_feedback(s1, Message(error_message))
     ELSE IF ~s1.music_stop_event THEN _show_feedback(s1, Message("Musik beendet."))
     ELSE s1

\* Mutant: a stop resets the round and keeps the sequence.
_handle_stop_KeepsSequence(s, label_text, cleanup_music, reset_progress, solution) ==
  LET s0 == IF cleanup_music THEN _music_cleanup(s) ELSE s
      s1 == _cancel_word_hide(s0)
      s2 == cancel_timer(s1)
      s3 == [s2 EXCEPT !.game_active = FALSE]
      s4 == IF reset_progress THEN [s3 EXCEPT !.round = 0] ELSE s3
      s5 == [s4 EXCEPT !.remaining_time = 0,
                       !.word_label = IF solution.given
                                      THEN Label("Loesung", solution.words, TEXT_PRIMARY)
                                      ELSE Label(label_text, <<>>, "#c34d5e")]
  IN IF reset_progress THEN _update_score_label(s5, 0) ELSE s5

_handle_stop(s, label_text, cleanup_music, reset_progress, solution) ==
  LET s0 == IF cleanup_music THEN _music_cleanup(s) ELSE s
      s1 == _cancel_word_hide(s0)
      s2 == cancel_timer(s1)
      s3 == [s2 EXCEPT !.game_active = FALSE]
      s4 == IF reset_progress THEN [s3 EXCEPT !.sequence = <<>>, !.round = 0] ELSE s3
      s5 == [s4 EXCEPT !.remaining_time = 0,
                       !.word_label = IF solution.given
                                      THEN Label("Loesung", solution.words, TEXT_PRIMARY)
                                      ELSE Label(label_text, <<>>, "#c34d5e")]
  IN IF reset_progress THEN _update_score_label(s5, 0) ELSE s5

\* Mutant: the round being attempted is credited.
_handle_failure_CreditsRound(s) ==
  LET score == Max(0, s.round)
      new_highscore == score > s.highscore
      s1 == IF new_highscore
            THEN _save_highscore([s EXCEPT !.highscore = score], score)
            ELSE s
      s2 == _show_feedback(s1, [text |-> "Falsch!", score |-> score,
                                new_highscore |-> new_highscore])
      s3 == _update_score_label(_music_cleanup(s2), score)
  IN _handle_stop(s3, "Game Over", FALSE, FALSE, SolutionText(JoinWith(s3.sequence, ARROW)))

\* Mutant: the score is stored whether or not it is a new highscore.
_handle_failure_AlwaysStores(s) ==
  LET score == Max(0, s.round - 1)
      new_highscore == score > s.highscore
      s1 == _save_highscore([s EXCEPT !.highscore = score], score)
      s2 == _show_feedback(s1, [text |-> "Falsch!", score |-> score,
                                new_highscore |-> new_highscore])
      s3 == _update_score_label(_music_cleanup(s2), score)
  IN _handle_stop(s3, "Game Over", FALSE, FALSE, SolutionText(JoinWith(s3.sequence, ARROW)))

\* Mutant: a failure resets the progress as a manual stop does.
_handle_failure_ResetsProgress(s) ==
  LET score == Max(0, s.round - 1)
      new_highscore == score > s.highscore
      s1 == IF new_highscore
            THEN _save_highscore([s EXCEPT !.highscore = score], score)
            ELSE s
      s2 == _show_feedback(s1, [text |-> "Falsch!", score |-> score,
                                new_highscore |-> new_highscore])
      s3 == _update_score_label(_music_cleanup(s2), score)
  IN _handle_stop(s3, "Game Over", FALSE, TRUE, SolutionText(JoinWith(s3.sequence, ARROW)))

_handle_failure(s) ==
  LET score == Max(0, s.round - 1)
      new_highscore == score > s.highscore
      s1 == IF new_highscore
            THEN _save_highscore([s EXCEPT !.highscore = score], score)
            ELSE s
      s2 == _show_feedback(s1, [text |-> "Falsch!", score |-> score,
                                new_highscore |-> new_highscore])
      s3 == _update_score_label(_music_cleanup(s2), score)
  IN _handle_stop(s3, "Game Over", FALSE, FALSE, SolutionText(JoinWith(s3.sequence, ARROW)))

\* Mutant: the tick does not look at the timer switch.
update_timer_IgnoresSwitch(s) ==
  IF ~s.game_active THEN s
  ELSE IF s.remaining_time <= 0 THEN _handle_failure(s)
  ELSE [s EXCEPT !.remaining_time = @ - 1,
                 !.timer_id = "pending",
                 !.after_update_timer = @ + 1]

\* Mutant: a countdown at zero stops ticking and nothing else happens.
update_timer_NoExpiry(s) ==
  IF ~s.game_active \/ ~s.timer_enabled THEN s
  ELSE IF s.remaining_time <= 0 THEN s
  ELSE [s EXCEPT !.remaining_time = @ - 1,
                 !.timer_id = "pending",
                 !.after_update_timer = @ + 1]

\* Mutant: a tick takes two tenths.
update_timer_TwoTenths(s) ==
  IF ~s.game_active \/ ~s.timer_enabled THEN s
  ELSE IF s.remaining_time <= 0 THEN _handle_failure(s)
  ELSE [s EXCEPT !.remaining_time = @ - 2,
                 !.timer_id = "pending",
                 !.after_update_timer = @ + 1]

\* Mutant: the tick does not look at game_active.
update_timer_NoActiveCheck(s) ==
  IF ~s.timer_enabled THEN s
  ELSE IF s.remaining_time <= 0 THEN _handle_failure(s)
  ELSE [s EXCEPT !.remaining_time = @ - 1,
                 !.timer_id = "pending",
                 !.after_update_timer = @ + 1]

update_timer(s) ==
  IF ~s.game_active \/ ~s.timer_enabled THEN s
  ELSE IF s.remaining_time <= 0 THEN _handle_failure(s)
  ELSE [s EXCEPT !.remaining_time = @ - 1,
                 !.timer_id = "pending",
                 !.after_update_timer = @ + 1]

_initialize_game_state(s) ==
  LET s1 == _cancel_word_hide(cancel_timer(s))
      s2 == [s1 EXCEPT !.sequence = <<>>, !.round = 0, !.game_active = TRUE]
      s3 == _show_feedback(s2, Message("Merke dir das Wort!"))
      s4 == [s3 EXCEPT !.word_label = Label("Bereit?", <<>>, TEXT_PRIMARY)]
  IN _update_score_label(s4, 0)

\* Mutant: start_game does not look at game_active.
start_game_Restarts(s) ==
  [_initialize_game_state(s) EXCEPT !.after_next_round = @ + 1]

start_game(s) ==
  IF s.game_active THEN s
  ELSE [_initialize_game_state(s) EXCEPT !.after_next_round = @ + 1]

\* Mutant: a stop with no game running stops all the same.
stop_game_IdleResets(s) ==
  IF ~s.game_active
  THEN _handle_stop(_show_feedback(s, Message("Kein Spiel laeuft.")), "Gestoppt", TRUE, TRUE, NoSolution)
  ELSE _handle_stop(_show_feedback(s, Message("Spiel gestoppt.")), "Gestoppt", TRUE, TRUE, NoSolution)

stop_game(s) ==
  IF ~s.game_active THEN _show_feedback(s, Message("Kein Spiel laeuft."))
  ELSE _handle_stop(_show_feedback(s, Message("Spiel gestoppt.")), "Gestoppt", TRUE, TRUE, NoSolution)

\* The colours random.choice draws the text colour from.
TextColors(word) == {COLOR_MAP[w] : w \in {v \in Words : COLOR_MAP[v] # COLOR_MAP[word]}}

\* Mutant: every round gets the budget of the first round.
next_round_FlatBudget(s, word, text_color) ==
  IF ~s.game_active THEN s
  ELSE LET s1 == [s EXCEPT !.round = @ + 1]
           s2 == _update_score_label(s1, s1.round)
           s3 == [s2 EXCEPT !.sequence = Append(@, word)]
           s4 == _cancel_word_hide(s3)
           s5 == [s4 EXCEPT !.word_label = Label("word", <<word>>, text_color),
                            !.hide_word_id = "pending",
                            !.after_conceal_word = @ + 1]
           s6 == _clear_feedback(s5)
           s7 == cancel_timer([s6 EXCEPT !.remaining_time = RoundBudget])
       IN _start_music(IF s7.timer_enabled THEN update_timer(s7) ELSE s7)

\* Mutant: the new word is put in front of the sequence.
next_round_Prepends(s, word, text_color) ==
  IF ~s.game_active THEN s
  ELSE LET s1 == [s EXCEPT !.round = @ + 1]
           s2 == _update_score_label(s1, s1.round)
           s3 == [s2 EXCEPT !.sequence = <<word>> \o @]
           s4 == _cancel_word_hide(s3)
           s5 == [s4 EXCEPT !.word_label = Label("word", <<word>>, text_color),
                            !.hide_word_id = "pending",
                            !.after_conceal_word = @ + 1]
           s6 == _clear_feedback(s5)
           s7 == cancel_timer([s6 EXCEPT !.remaining_time = s6.round * RoundBudget])
       IN _start_music(IF s7.timer_enabled THEN update_timer(s7) ELSE s7)

next_round(s, word, text_color) ==
  IF ~s.game_active THEN s
  ELSE LET s1 == [s EXCEPT !.round = @ + 1]
           s2 == _update_score_label(s1, s1.round)
           s3 == [s2 EXCEPT !.sequence = Append(@, word)]
           s4 == _cancel_word_hide(s3)
           s5 == [s4 EXCEPT !.word_label = Label("word", <<word>>, text_color),
                            !.hide_word_id = "pending",
                            !.after_conceal_word = @ + 1]
           s6 == _clear_feedback(s5)
           s7 == cancel_timer([s6 EXCEPT !.remaining_time = s6.round * RoundBudget])
       IN _start_music(IF s7.timer_enabled THEN update_timer(s7) ELSE s7)

_conceal_word(s) ==
  LET s1 == [s EXCEPT !.hide_word_id = "None"]
  IN IF ~s1.game_active THEN s1
     ELSE [s1 EXCEPT !.word_label = Label("?", <<>>, @.color)]

\* The entry's text: tokens and separator characters.
Separators == {",", ";", " "}

\* re.split(r"[,;\s]+", guess) without the empty segments.
SplitGuess(guess) == SelectSeq(guess, LAMBDA c : c \notin Separators)

\* Mutant: the comparison is case-sensitive.
submit_guess_CaseSensitive(s, input) ==
  IF ~s.game_active THEN s
  ELSE LET guess == Strip(input) IN
       IF guess = <<>> THEN _show_feedback(s, Message("Bitte gib die Sequenz ein."))
       ELSE LET guessed_words == SplitGuess(guess)
                expected_words == s.sequence
                s1 == cancel_timer(s)
            IN IF guessed_words = expected_words
               THEN [_show_feedback(s1, Message("Richtig!"))
                       EXCEPT !.after_next_round = @ + 1]
               ELSE _handle_failure(s1)

submit_guess(s, input) ==
  IF ~s.game_active THEN s
  ELSE LET guess == Strip(input) IN
       IF guess = <<>> THEN _show_feedback(s, Message("Bitte gib die Sequenz ein."))
       ELSE LET guessed_words == FoldAll(SplitGuess(guess))
                expected_words == FoldAll(s.sequence)
                s1 == cancel_timer(s)
            IN IF guessed_words = expected_words
               THEN [_show_feedback(s1, Message("Richtig!"))
                       EXCEPT !.after_next_round = @ + 1]
               ELSE _handle_failure(s1)

\* The switch has flipped timer_enabled when its command runs.
_toggle_timer(s) ==
  LET enabled == s.timer_enabled
      s1 == _show_feedback(s, Message(IF enabled THEN "Timer aktiviert."
                                      ELSE "Timer deaktiviert."))
  IN IF ~s1.game_active THEN s1
     ELSE LET s2 == cancel_timer(s1) IN
          IF enabled
          THEN update_timer(IF s2.remaining_time <= 0
                            THEN [s2 EXCEPT !.remaining_time = s2.round * ToggleBudget]
                            ELSE s2)
          ELSE s2

\* ------------------------------------------------------------ the inputs
\* The word lists a player may answer a sequence with: the sequence, the
\* sequence with any one position replaced by any word, each proper prefix
\* (the empty one too), and the sequence with one word more.
GuessLists(seq, words) ==
  {seq}
    \cup {[seq EXCEPT ![i] = w] : i \in 1..Len(seq), w \in words}
    \cup {SubSeq(seq, 1, k) : k \in 0..(Len(seq) - 1)}
    \cup {Append(seq, w) : w \in words}

\* What the entry can hold at a submission: those lists comma separated; the
\* sequence itself also in lower case, and blank separated with blanks around;
\* and a lone separator.
GuessInputs(seq) ==
  {JoinWith(p, ",") : p \in GuessLists(seq, Words)}
    \cup {JoinWith(FoldAll(seq), ","), <<" ">> \o JoinWith(seq, " ") \o <<" ">>, <<",">>}

\* What the player submits in a run, one entry of each kind: the sequence, the
\* sequence with its last word replaced by another word, without its last
\* word, with one word more, and a lone separator. submit_guess then goes each
\* of its ways (nothing entered, right, wrong); the other spellings of
\* GuessInputs lead it to the same results.
EntryInputs(seq) ==
  {JoinWith(seq, ","), JoinWith(Append(seq, "Rot"), ","), <<",">>}
    \cup (IF seq = <<>> THEN {}
          ELSE {JoinWith(SubSeq(seq, 1, Len(seq) - 1), ",")}
                 \cup {JoinWith([seq EXCEPT ![Len(seq)] = w], ",") :
                         w \in Words \ {seq[Len(seq)]}})

\* The highscore file the game finds at start-up.
InitialFiles == {<<"1">>}

\* ---------------------------------------------------------- animations.py
\* A WordAnimator: its two handles, and the callbacks of each kind pending.
WordAnimators ==
  {[word_fade_id |-> f, hide_word_id |-> h,
    after_fade |-> IF f = "pending" THEN 1 ELSE 0,
    after_conceal |-> IF h = "pending" THEN 1 ELSE 0] :
     f \in HandleStates, h \in HandleStates}

cancel_conceal(a) ==
  IF a.hide_word_id # "None"
  THEN [a EXCEPT !.after_conceal = IF a.hide_word_id = "pending" THEN @ - 1 ELSE @,
                 !.hide_word_id = "None"]
  ELSE a

cancel_fade(a) ==
  IF a.word_fade_id # "None"
  THEN [a EXCEPT !.after_fade = IF a.word_fade_id = "pending" THEN @ - 1 ELSE @,
                 !.word_fade_id = "None"]
  ELSE a

word_cancel_all(a) == cancel_fade(cancel_conceal(a))

\* A FeedbackAnimator: its two handles, the callbacks pending, the font size
\* (base_size 20, or larger in a pulse) and the label's colour.
FeedbackAnimators ==
  {[color_animation_id |-> c, pulse_animation_id |-> q,
    after_color |-> IF c = "pending" THEN 1 ELSE 0,
    after_pulse |-> IF q = "pending" THEN 1 ELSE 0,
    font_size |-> size, text_color |-> color] :
     c \in HandleStates, q \in HandleStates,
     size \in {20, 22}, color \in {"base_color", "end_color"}}

cancel_color_animation(f) ==
  IF f.color_animation_id # "None"
  THEN [f EXCEPT !.after_color = IF f.color_animation_id = "pending" THEN @ - 1 ELSE @,
                 !.color_animation_id = "None"]
  ELSE f

cancel_pulse_animation(f) ==
  IF f.pulse_animation_id # "None"
  THEN [f EXCEPT !.after_pulse = IF f.pulse_animation_id = "pending" THEN @ - 1 ELSE @,
                 !.pulse_animation_id = "None",
                 !.font_size = 20]
  ELSE f

feedback_cancel_all(f) ==
  [cancel_pulse_animation(cancel_color_animation(f)) EXCEPT !.text_color = "base_color"]

\* ----------------------------------------------------- ColorMemoryEngine
\* self.color_map: the first entries of config.COLOR_MAP.
color_map == [w \in {"Rot", "Blau", "Gruen"} |->
                CASE w = "Rot" -> "#ff9aa0"
                  [] w = "Blau" -> "#8bbcff"
                  [] w = "Gruen" -> "#8be2c0"]

\* utils.darker_color(code) with factor 0.6, on the codes of color_map.
darker_color(code) ==
  CASE code = "#ff9aa0" -> "#995c60"
    [] code = "#8bbcff" -> "#537099"
    [] code = "#8be2c0" -> "#538773"
    [] OTHER -> "#181f3a"

\* The allowed_words a caller may pass: None (every key), two words, one word,
\* one word among unknown ones, and unknown words only.
AllowedWordChoices ==
  {DOMAIN color_map, {"Rot", "Blau"}, {"Gruen"}, {"Blau", "Cyan"}, {"Cyan"}}

\* The engine object with its environment as one record.
EngineSelf == [constructed |-> engine.constructed,
               active_words |-> engine.active_words, sequence |-> engine.sequence,
               round |-> engine.round, highscore |-> engine.highscore,
               highscore_file |-> highscore_file, disk_writable |-> disk_writable,
               returned |-> returned]

EngineBecomes(result) ==
  \E e \in {result} :
    /\ engine' = [constructed |-> e.constructed,
                  active_words |-> e.active_words, sequence |-> e.sequence,
                  round |-> e.round, highscore |-> e.highscore]
    /\ highscore_file' = e.highscore_file
    /\ disk_writable' = e.disk_writable
    /\ returned' = e.returned
    /\ UNCHANGED <<sequence, round, remaining_time, timer_id, hide_word_id,
                   game_active, timer_enabled, highscore, score_label, word_label,
                   after_next_round, after_update_timer, after_conceal_word,
                   musicVars>>

Returns(e, call, value) == [e EXCEPT !.returned = [call |-> call, value |-> value]]

engine_ensure_highscore_file(content, writable) ==
  IF content = Missing THEN WriteFile(content, 0, writable) ELSE content

engine_save_highscore(e, score) ==
  [e EXCEPT !.highscore_file = WriteFile(@, score, e.disk_writable)]

\* ColorMemoryEngine(allowed_words = ...) on the file found.  When the load
\* raises, the exception leaves __init__ and the caller has no engine.
engine_init(found, writable, allowed_words) ==
  LET content == engine_ensure_highscore_file(found, writable) IN
    IF load_raises(content)
    THEN [constructed |-> FALSE,
          active_words |-> {}, sequence |-> <<>>, round |-> 0, highscore |-> 0,
          highscore_file |-> content,
          disk_writable |-> writable,
          returned |-> [call |-> "__init__", value |-> "UnicodeDecodeError"]]
    ELSE [constructed |-> TRUE,
          active_words |-> {word \in allowed_words : word \in DOMAIN color_map},
          sequence |-> <<>>,
          round |-> 0,
          highscore |-> _load_highscore(content),
          highscore_file |-> content,
          disk_writable |-> writable,
          returned |-> [call |-> "__init__", value |-> "None"]]

engine_reset(e) ==
  Returns([e EXCEPT !.sequence = <<>>, !.round = 0], "reset", "None")

\* Mutant: the word is drawn from the whole colour map.
engine_pool_AllWords(e) == DOMAIN color_map

\* pool, and the colours the text colour is drawn from, for the word drawn.
engine_pool(e) == IF e.active_words # {} THEN e.active_words ELSE DOMAIN color_map

\* Mutant: the text colour is drawn from all colours.
engine_available_colors_AnyColor(e, word) == {color_map[n] : n \in DOMAIN color_map}

engine_available_colors(e, word) ==
  LET pool == engine_pool(e)
      available_colors == {color_map[name] :
                             name \in {n \in DOMAIN color_map : n # word /\ n \in pool}}
  IN IF available_colors = {} THEN {color_map[n] : n \in DOMAIN color_map}
     ELSE available_colors

prepare_next_round(e, word, text_color) ==
  LET e1 == [e EXCEPT !.round = @ + 1]
      e2 == [e1 EXCEPT !.sequence = Append(@, word)]
  IN Returns(e2, "prepare_next_round",
             [word |-> word, text_color |-> text_color,
              background_color |-> darker_color(text_color),
              time_budget |-> e2.round * timer_factor])

\* Mutant: a guess is right as far as it goes.
evaluate_guess_PrefixOk(e, guessed_words) ==
  Returns(e, "evaluate_guess",
          /\ Len(guessed_words) <= Len(e.sequence)
          /\ FoldAll(guessed_words) = SubSeq(FoldAll(e.sequence), 1, Len(guessed_words)))

evaluate_guess(e, guessed_words) ==
  Returns(e, "evaluate_guess", FoldAll(guessed_words) = FoldAll(e.sequence))

\* The separator of the engine's solution text: the same arrow read in the
\* wrong encoding, three characters between blanks.
ENGINE_ARROW == " a+' "

\* Mutant: the highscore is taken only when it could be written.
register_failure_NeedsWrite(e) ==
  LET score == Max(0, e.round - 1)
      new_highscore == score > e.highscore /\ e.disk_writable
      e1 == IF new_highscore
            THEN engine_save_highscore([e EXCEPT !.highscore = score], score)
            ELSE e
  IN Returns(e1, "register_failure",
             [score |-> score, new_highscore |-> new_highscore,
              solution |-> JoinWith(e1.sequence, ENGINE_ARROW)])

register_failure(e) ==
  LET score == Max(0, e.round - 1)
      new_highscore == score > e.highscore
      e1 == IF new_highscore
            THEN engine_save_highscore([e EXCEPT !.highscore = score], score)
            ELSE e
  IN Returns(e1, "register_failure",
             [score |-> score, new_highscore |-> new_highscore, solution |-> JoinWith(e1.sequence, ENGINE_ARROW)])

register_success(e) ==
  Returns(IF e.round > e.highscore THEN [e EXCEPT !.highscore = e.round] ELSE e,
          "register_success", "None")

engine_reset_highscore(e) ==
  Returns(engine_save_highscore([e EXCEPT !.highscore = 0], 0), "reset_highscore", "None")

\* The files an engine may find at its path.
EngineInitialFiles ==
  {Missing, <<>>, <<"0">>, <<"2">>, <<"-", "1">>, <<"x">>,
   <<" ", "1", "\n">>, <<"{", "s", ":", "2", "}">>, <<"{", "}">>,
   <<"{", "s", ":", "-", "1", "}">>, <<"{", "s", ":", "x", "}">>,
   <<INVALID_BYTE>>}

\* The guesses evaluate_guess is asked about: as listed and in lower case.
EngineGuesses(seq) ==
  GuessLists(seq, DOMAIN color_map)
    \cup {FoldAll(p) : p \in GuessLists(seq, DOMAIN color_map)}

\* No engine is constructed in a run of the game, and no game in a run of the
\* engine.
NoEngine == [constructed |-> FALSE,
             active_words |-> {}, sequence |-> <<>>, round |-> 0, highscore |-> 0]

NoCall == [call |-> "<none>", value |-> "None"]

\* ----------------------------------------------------------------- Init
\* ColorMemoryGame.__init__: the file is created with "0" when absent, then
\* loaded.
GameFields ==
  /\ sequence = <<>>
  /\ round = 0
  /\ remaining_time = 0
  /\ timer_id = "None"
  /\ hide_word_id = "None"
  /\ game_active = FALSE
  /\ score_label = 0
  /\ word_label = Label("", <<>>, TEXT_PRIMARY)
  /\ after_next_round = 0
  /\ after_update_timer = 0
  /\ after_conceal_word = 0
  /\ music_thread = "None"
  /\ music_stop_event = FALSE
  /\ music_mode = "None"
  /\ music_process = "None"
  /\ music_workers = 0
  /\ after_finalize_music_loop = <<>>

\* The checkout ships no assets/music.wav.
NoMusicFile ==
  /\ music_file_exists = FALSE
  /\ audio_backend = "none"

\* The installations: with or without the music file, and with afplay, with
\* the playsound module, or with neither.
AnyAudio ==
  /\ music_file_exists \in BOOLEAN
  /\ audio_backend \in MusicModes \cup {"none"}

GameStart ==
  /\ GameFields
  /\ disk_writable \in BOOLEAN
  /\ \E found \in InitialFiles :
       highscore_file = IF found = Missing THEN WriteFile(found, 0, disk_writable)
                        ELSE found
  /\ highscore = _load_highscore(highscore_file)
  /\ engine = NoEngine
  /\ returned = NoCall

GameInit == GameStart /\ timer_enabled = TRUE /\ NoMusicFile

\* The sessions with music: on any installation, with a highscore file that
\* can be written, and with the timer switch turned off before the first game,
\* so that no tick is ever scheduled and a round ends by an answer or a stop.
MusicInit == GameStart /\ disk_writable /\ timer_enabled = FALSE /\ AnyAudio

EngineInit ==
  /\ GameFields
  /\ timer_enabled = TRUE
  /\ NoMusicFile
  /\ highscore = 0
  /\ \E found \in EngineInitialFiles, writable \in BOOLEAN,
        allowed_words \in AllowedWordChoices :
       \E e \in {engine_init(found, writable, allowed_words)} :
         /\ engine = [constructed |-> e.constructed,
                      active_words |-> e.active_words, sequence |-> e.sequence,
                      round |-> e.round, highscore |-> e.highscore]
         /\ highscore_file = e.highscore_file
         /\ disk_writable = e.disk_writable
         /\ returned = e.returned

\* -------------------------------------------------------------- actions
\* The player's commands.
StartGame ==
  /\ ~game_active => after_next_round < MaxPending
  /\ Becomes(start_game(Self))

StopGame == Becomes(stop_game(Self))

SubmitGuess ==
  \E input \in EntryInputs(sequence) :
    LET s == submit_guess(Self, input) IN
      /\ s.after_next_round <= MaxPending
      /\ Becomes(s)

ToggleTimer == Becomes(_toggle_timer([Self EXCEPT !.timer_enabled = ~@]))

ResetHighscore == Becomes(reset_highscore(Self))

\* The event loop fires a pending callback.
NextRoundFires ==
  /\ after_next_round > 0
  /\ game_active => round < MaxRound
  /\ \E word \in Words :
       \E text_color \in TextColors(word) :
         LET s == next_round([Self EXCEPT !.after_next_round = @ - 1], word, text_color) IN
           /\ s.music_workers + Len(s.after_finalize_music_loop) <= MaxPending
           /\ Becomes(s)

\* held: the callback that fires is the one self.timer_id names.
UpdateTimerFires ==
  \E held \in BOOLEAN :
    /\ IF held THEN timer_id = "pending"
       ELSE after_update_timer > (IF timer_id = "pending" THEN 1 ELSE 0)
    /\ Becomes(update_timer([Self EXCEPT !.after_update_timer = @ - 1,
                                         !.timer_id = IF held THEN "fired" ELSE @]))

ConcealWordFires ==
  \E held \in BOOLEAN :
    /\ IF held THEN hide_word_id = "pending"
       ELSE after_conceal_word > (IF hide_word_id = "pending" THEN 1 ELSE 0)
    /\ Becomes(_conceal_word([Self EXCEPT !.after_conceal_word = @ - 1,
                                          !.hide_word_id = IF held THEN "fired" ELSE @]))

\* A thread running _music_loop("afplay") starts the player, at first or
\* after the player has ended.
MusicLoopPlays ==
  /\ music_workers > 0
  /\ audio_backend = "afplay"
  /\ ~music_stop_event
  /\ music_process # "running"
  /\ Becomes(_music_loop_Popen(Self))

\* The player reaches the end of the file.
MusicProcessExits ==
  /\ music_process = "running"
  /\ Becomes([Self EXCEPT !.music_process = "exited"])

\* A thread running _music_loop leaves its loop: on an error, or with no error
\* once it sees the stop event set.
MusicLoopLeaves ==
  /\ music_workers > 0
  /\ \E referenced \in BOOLEAN :
       /\ IF referenced THEN music_thread = "alive"
          ELSE music_workers > (IF music_thread = "alive" THEN 1 ELSE 0)
       /\ \E error_message \in MusicErrors(audio_backend) \cup {NoError} :
            /\ error_message = NoError => music_stop_event
            /\ Becomes(_music_loop_Leaves(Self, audio_backend, error_message, referenced))

FinalizeMusicLoopFires ==
  /\ after_finalize_music_loop # <<>>
  /\ Becomes(_finalize_music_loop([Self EXCEPT !.after_finalize_music_loop = Tail(@)],
                                  Head(after_finalize_music_loop)))

\* The calls on the engine.
EngineConstruct ==
  \E allowed_words \in AllowedWordChoices :
    EngineBecomes(engine_init(highscore_file, disk_writable, allowed_words))

EngineReset == engine.constructed /\ EngineBecomes(engine_reset(EngineSelf))

PrepareNextRound ==
  /\ engine.constructed
  /\ engine.round < MaxRound
  /\ \E word \in engine_pool(EngineSelf) :
       \E text_color \in engine_available_colors(EngineSelf, word) :
         EngineBecomes(prepare_next_round(EngineSelf, word, text_color))

EvaluateGuess ==
  /\ engine.constructed
  /\ \E guessed_words \in EngineGuesses(engine.sequence) :
       EngineBecomes(evaluate_guess(EngineSelf, guessed_words))

RegisterFailure == engine.constructed /\ EngineBecomes(register_failure(EngineSelf))

RegisterSuccess == engine.constructed /\ EngineBecomes(register_success(EngineSelf))

EngineResetHighscore == engine.constructed /\ EngineBecomes(engine_reset_highscore(EngineSelf))

\* The environment: the file becomes unwritable, or writable again.
DiskFlips ==
  /\ disk_writable' = ~disk_writable
  /\ UNCHANGED <<sequence, round, remaining_time, timer_id, hide_word_id,
                 game_active, timer_enabled, highscore, score_label, word_label,
                 after_next_round, after_update_timer, after_conceal_word,
                 highscore_file, musicVars, engine, returned>>

Init == GameInit

Next ==
  \/ StartGame
  \/ StopGame
  \/ SubmitGuess
  \/ ToggleTimer
  \/ ResetHighscore
  \/ NextRoundFires
  \/ UpdateTimerFires
  \/ ConcealWordFires

Spec == Init /\ [][Next]_vars

\* Tk's main loop runs a due callback: while a tick is pending, it fires.
LiveSpec == Init /\ [][Next]_vars /\ WF_vars(UpdateTimerFires)

\* The steps of the music threads and of their finalization.
MusicNext ==
  \/ MusicLoopPlays
  \/ MusicProcessExits
  \/ MusicLoopLeaves
  \/ FinalizeMusicLoopFires

\* The handlers that can run while the timer is off.
UntimedNext ==
  \/ StartGame
  \/ StopGame
  \/ SubmitGuess
  \/ ResetHighscore
  \/ NextRoundFires
  \/ ConcealWordFires

MusicSpec == MusicInit /\ [][UntimedNext \/ MusicNext]_vars

EngineNext ==
  \/ EngineConstruct
  \/ EngineReset
  \/ PrepareNextRound
  \/ EvaluateGuess
  \/ RegisterFailure
  \/ RegisterSuccess
  \/ EngineResetHighscore
  \/ DiskFlips

EngineSpec == EngineInit /\ [][EngineNext]_vars

\* ------------------------------------------------------------ the claims
\* A round is in progress: the game is active and a word has been revealed.
RoundInProgress == game_active /\ round >= 1

\* The failure screen: the solution is shown and the game is over.
Failed(s) == ~s.game_active /\ s.word_label.kind = "Loesung"

\* The entries that spell a sequence exactly: comma separated as listed,
\* comma separated in lower case, blank separated with blanks around.
CorrectInputs(seq) ==
  {JoinWith(seq, ","),
   JoinWith([i \in 1..Len(seq) |-> casefold(seq[i])], ","),
   <<" ">> \o JoinWith(seq, " ") \o <<" ">>}

\* The entries that differ from a sequence in position i alone.
WrongInputsAt(seq, i) ==
  {JoinWith([seq EXCEPT ![i] = w], ",") : w \in Words \ {seq[i]}}
    \cup {JoinWith([seq EXCEPT ![i] = w], ",") :
            w \in {casefold(v) : v \in Words \ {seq[i]}}}

\* C1: a start_game() that starts a session leaves exactly one next_round
\* callback pending, whatever was started, stopped or failed before it.
C1_OneRoundAdvancePending ==
  [][(~game_active /\ game_active') => after_next_round' = 1]_vars

\* C2: in a round in progress, submitting exactly the expected sequence
\* (case-insensitively) does not fail, reports the round as solved, and
\* schedules exactly one next_round callback.
C2_CorrectSubmissionAdvances ==
  RoundInProgress =>
    \A input \in CorrectInputs(sequence) :
      LET s == submit_guess(Self, input) IN
        /\ s.game_active
        /\ ~Failed(s)
        /\ s.feedback = Message("Richtig!")
        /\ s.after_next_round = after_next_round + 1
        /\ s.round = round /\ s.sequence = sequence

\* A correct submission has been made with the countdown running: the game is
\* active, the timer is on and cancelled, and a next_round callback is pending.
C2_Witness ==
  /\ RoundInProgress
  /\ round = Len(sequence)
  /\ timer_enabled /\ timer_id = "None"
  /\ after_next_round = 1

\* C3: in round r, a submission that is wrong at position i ends the session
\* on the failure screen with reported score r - 1, for every i.
C3_WrongTokenFailsWithScore ==
  RoundInProgress =>
    \A i \in 1..Len(sequence) :
      \A input \in WrongInputsAt(sequence, i) :
        LET s == submit_guess(Self, input) IN
          /\ Failed(s)
          /\ s.feedback.text = "Falsch!"
          /\ s.feedback.score = round - 1
          /\ s.score_label = round - 1

\* A failure in round 2 has been reported with score 1.
C3_Witness ==
  Failed(Self) /\ round = 2 /\ Len(sequence) = 2 /\ score_label = 1

\* C4: no step other than reset_highscore lowers the in-memory highscore, of
\* the game or of an engine (a newly constructed engine is another object).
C4_HighscoreNeverDecreases ==
  [][/\ highscore' >= highscore \/ ResetHighscore
     /\ \/ engine'.highscore >= engine.highscore
        \/ EngineResetHighscore
        \/ EngineConstruct]_vars

\* A failure with score 0 has left a highscore of 1 as it was.
C4_Witness ==
  Failed(Self) /\ round = 1 /\ score_label = 0 /\ highscore = 1

\* C5: a register_failure whose write succeeds leaves in the file at least the
\* score of the ended session.
C5_FailurePersistsScore ==
  [][(RegisterFailure /\ disk_writable) =>
       _load_highscore(highscore_file') >= Max(0, engine.round - 1)]_vars

\* C6: a correct submission for round r raises the highscore to at least r.
C6_SuccessRaisesHighscore ==
  RoundInProgress =>
    \A input \in CorrectInputs(sequence) :
      submit_guess(Self, input).highscore >= round

C8_SequenceLengthIsRound ==
  /\ Len(sequence) = round
  /\ Len(engine.sequence) = engine.round

\* Two rounds have been revealed.
C8_Witness == game_active /\ round = 2 /\ Len(sequence) = 2

\* C9: the text colour prepare_next_round returns is not the colour of the
\* word it drew.
C9_TextColorDiffers ==
  returned.call = "prepare_next_round" =>
    returned.value.text_color # color_map[returned.value.word]

\* The countdown of a round in progress is running.
C10_CountdownRunning ==
  RoundInProgress /\ timer_enabled /\ timer_id = "pending"

\* The player has stepped in: a correct submission (the countdown is cancelled
\* in an active game), a stop, or the timer switched off.
C10_PlayerSteppedIn ==
  \/ game_active /\ timer_id = "None"
  \/ ~game_active /\ word_label.kind = "Gestoppt"
  \/ ~timer_enabled

\* What an expiring tick does: the failure screen with score round - 1, and
\* the highscore raised to that score when it is more than it was, unchanged
\* otherwise.
C10_ExpiryRule ==
  (RoundInProgress /\ timer_enabled /\ remaining_time <= 0) =>
    LET s == update_timer(Self) IN
      /\ Failed(s)
      /\ s.feedback.text = "Falsch!" /\ s.feedback.score = round - 1
      /\ s.score_label = round - 1
      /\ s.highscore = (IF round - 1 > highscore THEN round - 1 ELSE highscore)

\* C10: a running countdown that the player leaves alone runs out, and the
\* session ends on the failure screen with score round - 1; the expiry changes
\* the highscore only when that score is greater.
C10_CountdownExpires ==
  /\ C10_CountdownRunning ~>
       \/ Failed(Self) /\ round >= 1 /\ score_label = round - 1 /\ remaining_time = 0
       \/ C10_PlayerSteppedIn
  /\ []C10_ExpiryRule

\* The countdown of round 2 has run from 6.0 s down to 0 and its last tick is
\* pending.
C10_Witness ==
  C10_CountdownRunning /\ round = 2 /\ remaining_time = 0 /\ highscore = 0

\* C11: with the timer switched off or no game active, update_timer (a stale
\* tick too) changes nothing: no failure, the remaining time as it was.
C11_TickGuarded ==
  (~game_active \/ ~timer_enabled) => update_timer(Self) = Self

\* The timer was switched off in a round whose countdown had reached 0: a tick
\* that ignored the switch would fail the round here.
C11_Witness ==
  RoundInProgress /\ ~timer_enabled /\ remaining_time = 0 /\ timer_id = "None"

\* Round r has been answered correctly and round r + 1 has not begun: with the
\* timer on, the countdown of a round in progress is cancelled by nothing else.
C12_RoundSolved == RoundInProgress /\ timer_enabled /\ timer_id = "None"

\* A round answered correctly has a next_round callback on its way.
C12_SolvedMeansAdvancePending == C12_RoundSolved => after_next_round >= 1

\* On the failure screen a submission is not accepted: it changes nothing.
C12_NoSubmissionAfterFailure ==
  Failed(Self) => \A input \in GuessInputs(sequence) : submit_guess(Self, input) = Self

\* C12: each round is resolved at most once: no step takes a round already
\* answered correctly to the failure screen, and after a failure no submission
\* is accepted.
C12_RoundResolvedOnce ==
  /\ [][C12_RoundSolved => ~Failed(Self)']_vars
  /\ []C12_NoSubmissionAfterFailure

\* The session has ended: stop_game has stopped a running game, or a failure
\* has been handled.
SessionEnded == ~game_active /\ word_label.kind \in {"Gestoppt", "Loesung"}

\* C13: once a session has ended by a stop or a failure, none of its callbacks
\* is pending: no countdown tick, no word concealment, no next_round.
C13_NoCallbackAfterEnd ==
  SessionEnded =>
    /\ after_update_timer = 0
    /\ after_conceal_word = 0
    /\ after_next_round = 0

\* C14: stop_game on a running game leaves the session idle with an empty
\* sequence, round 0 and remaining time 0, the highscore (in memory and in the
\* file) as it was; with no game running it changes nothing and shows the
\* "Kein Spiel laeuft." feedback.
C14_StopFrame ==
  LET s == stop_game(Self) IN
    /\ game_active =>
         /\ ~s.game_active
         /\ s.sequence = <<>> /\ s.round = 0 /\ s.remaining_time = 0
         /\ s.highscore = highscore /\ s.highscore_file = highscore_file
         /\ s.feedback = Message("Spiel gestoppt.")
    /\ ~game_active => s = [Self EXCEPT !.feedback = Message("Kein Spiel laeuft.")]

\* A running game has been stopped by hand, with the highscore at 1.
C14_Witness ==
  /\ ~game_active /\ word_label.kind = "Gestoppt"
  /\ sequence = <<>> /\ round = 0 /\ remaining_time = 0
  /\ highscore = 1

\* C15: start_game while a game is running changes nothing: round, sequence,
\* remaining time, the pending countdown and the pending next_round callbacks
\* are as they were, and no feedback is shown.
C15_StartWhileRunningNoOp ==
  game_active => start_game(Self) = Self

\* A running round with its countdown, its word concealment and a next_round
\* callback all pending: what a restart would cancel, reset or add to.
C15_Witness ==
  /\ game_active /\ round = 1 /\ sequence # <<>>
  /\ timer_id = "pending" /\ hide_word_id = "pending"
  /\ after_next_round = 1 /\ remaining_time > 0

\* C16: with no round in progress (no game running, the failure screen, or the
\* start delay before the first round) a submission changes no session state;
\* a failure would.
C16_SubmissionIgnoredOutsideRound ==
  ~RoundInProgress =>
    \A input \in GuessInputs(sequence) :
      [submit_guess(Self, input) EXCEPT !.feedback = NoFeedback] = Self

\* The entries that spell a non-empty proper prefix of a sequence.
PrefixInputs(seq) == {JoinWith(SubSeq(seq, 1, k), ",") : k \in 1..(Len(seq) - 1)}

\* C17: a submission that spells a proper prefix of the expected sequence keeps
\* the session armed: the game stays active, the round is not failed and is not
\* counted as solved (no next_round is scheduled).
C17_PrefixKeepsArmed ==
  RoundInProgress =>
    \A input \in PrefixInputs(sequence) :
      LET s == submit_guess(Self, input) IN
        /\ s.game_active /\ ~Failed(s)
        /\ s.after_next_round = after_next_round
        /\ s.round = round /\ s.sequence = sequence

\* The words of a joined text: what stands between the separators.
Unjoin(text, sep) == SelectSeq(text, LAMBDA part : part # sep)

\* What a handler can make of the running game in one call.
HandlerOutcomes ==
  {submit_guess(Self, input) : input \in GuessInputs(sequence)}
    \cup {update_timer(Self), _toggle_timer([Self EXCEPT !.timer_enabled = ~@])}

\* Every failure shows the solution: the sequence joined in reveal order; it
\* ends the session and leaves sequence and round as they were.
C18_FailureShowsSolution ==
  game_active =>
    \A s \in HandlerOutcomes :
      Failed(s) =>
        /\ s.word_label = Label("Loesung", JoinWith(sequence, ARROW), TEXT_PRIMARY)
        /\ Unjoin(s.word_label.words, ARROW) = sequence
        /\ s.sequence = sequence /\ s.round = round
        /\ ~s.game_active

\* The engine's register_failure returns the sequence joined in reveal order.
C18_EngineSolution ==
  returned.call = "register_failure" =>
    /\ returned.value.solution = JoinWith(engine.sequence, ENGINE_ARROW)
    /\ Unjoin(returned.value.solution, ENGINE_ARROW) = engine.sequence

\* C18: on failure the solution reported is the full sequence in reveal order;
\* the failure ends the session and does not reset progress: sequence and round
\* keep their values until start_game() in the game, reset() in the engine.
C18_FailureKeepsProgress ==
  /\ []C18_FailureShowsSolution
  /\ []C18_EngineSolution
  /\ [][Failed(Self) => \/ ~game_active' /\ sequence' = sequence /\ round' = round
                        \/ StartGame]_vars
  /\ [][RegisterFailure =>
          engine'.sequence = engine.sequence /\ engine'.round = engine.round]_vars

\* A failure in round 2 shows both words of the sequence, joined.
C18_Witness ==
  /\ Failed(Self) /\ round = 2
  /\ word_label.words = <<sequence[1], ARROW, sequence[2]>>

\* C19: in a running session a flip of the timer switch leaves round and
\* sequence as they were; switching off cancels the pending tick and keeps the
\* remaining time; switching on starts a countdown (its first tick taken, the
\* next one pending) from the remaining time, or from round * 2 s when none
\* remains.
C19_ToggleKeepsProgress ==
  game_active =>
    LET s == _toggle_timer([Self EXCEPT !.timer_enabled = ~@])
        budget == IF remaining_time > 0 THEN remaining_time ELSE round * ToggleBudget
    IN /\ s.round = round /\ s.sequence = sequence
       /\ timer_enabled =>
            /\ s.timer_id = "None" /\ s.after_update_timer = 0
            /\ s.remaining_time = remaining_time
            /\ s.game_active
       /\ ~timer_enabled =>
            /\ s.game_active
            /\ s.timer_id = "pending" /\ s.after_update_timer = 1
            /\ s.remaining_time = budget - 1

\* The files a load has nothing to read from: absent, empty or blank, no
\* number, not even text.
NothingToLoad(content) ==
  \/ content = Missing
  \/ Strip(content) = <<>>
  \/ content \in {<<"x">>, <<INVALID_BYTE>>}

\* C20: the load in the constructor raises nothing to the caller; the highscore
\* it returns is an integer >= 0, and 0 when the file is missing, unreadable,
\* empty or unparseable.
C20_LoadNeverRaises ==
  returned.call = "__init__" =>
    /\ returned.value = "None"
    /\ engine.constructed
    /\ engine.highscore \in Nat
    /\ NothingToLoad(highscore_file) => engine.highscore = 0

\* The engine's object: its fields without the environment.
EngineFields(e) == [constructed |-> e.constructed, active_words |-> e.active_words,
                    sequence |-> e.sequence, round |-> e.round,
                    highscore |-> e.highscore]

\* C21: a failed write raises nothing and changes nothing but the file:
\* register_failure and reset_highscore leave the same fields and return the
\* same value with the file writable and not, the new highscore taken in both;
\* the file keeps its content when the write fails.
C21_WriteFailureSwallowed ==
  engine.constructed =>
    LET can == [EngineSelf EXCEPT !.disk_writable = TRUE]
        cannot == [EngineSelf EXCEPT !.disk_writable = FALSE]
        score == Max(0, engine.round - 1)
    IN /\ EngineFields(register_failure(can)) = EngineFields(register_failure(cannot))
       /\ register_failure(can).returned = register_failure(cannot).returned
       /\ register_failure(cannot).highscore = Max(engine.highscore, score)
       /\ register_failure(cannot).highscore_file = highscore_file
       /\ EngineFields(engine_reset_highscore(can))
            = EngineFields(engine_reset_highscore(cannot))
       /\ engine_reset_highscore(can).returned = engine_reset_highscore(cannot).returned
       /\ engine_reset_highscore(cannot).highscore = 0
       /\ engine_reset_highscore(cannot).highscore_file = highscore_file

\* register_failure has taken a new highscore that the file does not hold: its
\* write has failed.
C21_Witness ==
  /\ returned.call = "register_failure"
  /\ returned.value.new_highscore
  /\ engine.highscore = returned.value.score
  /\ _load_highscore(highscore_file) < engine.highscore

\* The record {"score": n} as the file holds it.
ScoreRecord(number) == <<"{", "s", ":">> \o number \o <<"}">>

\* What the load is to make of a file that holds no bare integer: the score of
\* a record, 0 for a record without a score, 0 for anything else.
C22_Legacy(content) ==
  CASE content = ScoreRecord(<<"2">>) -> 2
    [] content = ScoreRecord(<<"-", "1">>) -> 0
    [] content = <<"{", "}">> -> 0
    [] content = ScoreRecord(<<"x">>) -> 0
    [] content = <<"x">> -> 0

C23_EvaluateGuessExact ==
  engine.constructed =>
    \A g \in EngineGuesses(engine.sequence) :
      LET r == evaluate_guess(EngineSelf, g) IN
        /\ r.returned.value =
             (/\ Len(g) = Len(engine.sequence)
              /\ \A i \in 1..Len(g) : casefold(g[i]) = casefold(engine.sequence[i]))
        /\ Len(g) # Len(engine.sequence) => r.returned.value = FALSE
        /\ EngineFields(r) = engine
        /\ r.highscore_file = highscore_file

\* evaluate_guess has turned down a guess in round 2 of an engine.
C23_Witness ==
  /\ returned.call = "evaluate_guess" /\ returned.value = FALSE
  /\ engine.round = 2 /\ Len(engine.sequence) = 2

\* The game as a tick callback finds it: the callback has left the loop and
\* timer_id still names it.
TickFired == [Self EXCEPT !.timer_id = "fired", !.after_update_timer = @ - 1]

\* The same for the word concealment, before _conceal_word clears the handle.
ConcealFired == [Self EXCEPT !.hide_word_id = "fired", !.after_conceal_word = @ - 1]

\* The cancels of the game: the handle is cleared, a second cancel changes
\* nothing, a cancel with no handle changes nothing, and a cancel of a callback
\* that has fired clears the handle and takes nothing off the loop.
C24_GameCancels ==
  /\ cancel_timer(Self).timer_id = "None"
  /\ cancel_timer(cancel_timer(Self)) = cancel_timer(Self)
  /\ timer_id = "None" => cancel_timer(Self) = Self
  /\ timer_id = "pending" =>
       /\ cancel_timer(Self).after_update_timer = after_update_timer - 1
       /\ cancel_timer(TickFired) = [TickFired EXCEPT !.timer_id = "None"]
  /\ _cancel_word_hide(Self).hide_word_id = "None"
  /\ _cancel_word_hide(_cancel_word_hide(Self)) = _cancel_word_hide(Self)
  /\ hide_word_id = "None" => _cancel_word_hide(Self) = Self
  /\ hide_word_id = "pending" =>
       _cancel_word_hide(ConcealFired) = [ConcealFired EXCEPT !.hide_word_id = "None"]

\* The cancels of the animators, for every state of their handles.
C24_AnimatorCancels ==
  /\ \A a \in WordAnimators :
       /\ cancel_conceal(cancel_conceal(a)) = cancel_conceal(a)
       /\ cancel_fade(cancel_fade(a)) = cancel_fade(a)
       /\ word_cancel_all(word_cancel_all(a)) = word_cancel_all(a)
       /\ word_cancel_all(a).hide_word_id = "None"
       /\ word_cancel_all(a).word_fade_id = "None"
       /\ a.hide_word_id # "pending" => cancel_conceal(a).after_conceal = a.after_conceal
       /\ a.word_fade_id # "pending" => cancel_fade(a).after_fade = a.after_fade
       /\ a.hide_word_id = "None" => cancel_conceal(a) = a
       /\ a.word_fade_id = "None" => cancel_fade(a) = a
  /\ \A f \in FeedbackAnimators :
       /\ cancel_color_animation(cancel_color_animation(f)) = cancel_color_animation(f)
       /\ cancel_pulse_animation(cancel_pulse_animation(f)) = cancel_pulse_animation(f)
       /\ feedback_cancel_all(feedback_cancel_all(f)) = feedback_cancel_all(f)
       /\ feedback_cancel_all(f).color_animation_id = "None"
       /\ feedback_cancel_all(f).pulse_animation_id = "None"
       /\ f.color_animation_id # "pending" =>
            cancel_color_animation(f).after_color = f.after_color
       /\ f.pulse_animation_id # "pending" =>
            cancel_pulse_animation(f).after_pulse = f.after_pulse
       /\ f.color_animation_id = "None" => cancel_color_animation(f) = f
       /\ f.pulse_animation_id = "None" => cancel_pulse_animation(f) = f

\* C24: cancelling a scheduled callback is idempotent: done twice in a row,
\* after the callback has fired, or with nothing scheduled, the cancel takes
\* nothing more off the event loop and leaves the handle cleared.
C24_CancelIdempotent == C24_GameCancels /\ C24_AnimatorCancels

\* The countdown of round 1 was cancelled by a correct guess and cancelled
\* again, with no handle held, on the way to the failure screen.
C24_Witness ==
  /\ Failed(Self) /\ round = 1 /\ after_next_round = 2
  /\ timer_id = "None" /\ after_update_timer = 0

\* ---- C25 ----
\* What a session consists of besides the music fields: the progress, the
\* countdown, the handles and pending callbacks, the labels, the stored score.
sessionVars == <<sequence, round, remaining_time, timer_id, hide_word_id,
                 game_active, timer_enabled, highscore, score_label, word_label,
                 after_next_round, after_update_timer, after_conceal_word,
                 highscore_file, disk_writable>>

\* C25: no step of a music thread and no finalization changes round,
\* sequence, game_active, remaining_time or highscore (or any other field of
\* the session): such a step changes music fields only, whatever the main
\* loop has done in between.
C25_MusicKeepsSession == [][MusicNext => UNCHANGED sessionVars]_vars

\* A thread started in an active game has ended and has been finalized while
\* round 2 is being played.
C25_Witness ==
  /\ game_active /\ round = 2 /\ Len(sequence) = 2
  /\ music_file_exists /\ audio_backend = "afplay"
  /\ music_thread = "None" /\ music_workers = 0
  /\ after_finalize_music_loop = <<>>

\* ---- C26 ----
Unavailable == ~music_file_exists \/ audio_backend = "none"

UnavailableMessages ==
  {Message("Keine Musikdatei gefunden."), Message("Musik nicht verfuegbar.")}

\* C26: with the music file or the backend missing, the next_round of the
\* first round reports it, the next_round of a later round of the session does
\* not report it again, and each of them starts its round as usual.
C26_UnavailableReportedOnce ==
  (game_active /\ Unavailable) =>
    \A word \in Words : \A text_color \in TextColors(word) :
      LET s == next_round(Self, word, text_color) IN
        /\ round = 0 => s.feedback \in UnavailableMessages
        /\ round >= 1 => s.feedback \notin UnavailableMessages
        /\ s.round = round + 1
        /\ s.sequence = Append(sequence, word)
        /\ s.game_active

\* The part that holds: the round starts as usual and no music field changes.
C26_RoundUnaffected ==
  (game_active /\ Unavailable) =>
    \A word \in Words : \A text_color \in TextColors(word) :
      LET s == next_round(Self, word, text_color) IN
        /\ s.feedback \in UnavailableMessages
        /\ s.round = round + 1
        /\ s.sequence = Append(sequence, word)
        /\ s.game_active
        /\ s.music_thread = "None" /\ s.music_workers = 0

\* ---- C27 ----
\* An engine holding the progress of the session.
EngineOfSession ==
  [constructed |-> TRUE, active_words |-> DOMAIN color_map,
   sequence |-> sequence, round |-> round, highscore |-> highscore,
   highscore_file |-> highscore_file, disk_writable |-> disk_writable,
   returned |-> NoCall]

\* A step keeps the sequence, or appends one token to it, or is a start or a
\* stop that empties it.
C27_AppendOrReset ==
  \/ sequence' = sequence
  \/ \E word \in Words : sequence' = Append(sequence, word)
  \/ (StartGame \/ StopGame) /\ sequence' = <<>>

\* On the engine only reset() empties the sequence, prepare_next_round appends
\* the drawn token, and every other method keeps the sequence.
C27_EngineAppendOnly ==
  LET e == EngineOfSession IN
    /\ \A word \in engine_pool(e) : \A text_color \in engine_available_colors(e, word) :
         prepare_next_round(e, word, text_color).sequence = Append(e.sequence, word)
    /\ \A guessed_words \in EngineGuesses(e.sequence) :
         evaluate_guess(e, guessed_words).sequence = e.sequence
    /\ register_failure(e).sequence = e.sequence
    /\ register_success(e).sequence = e.sequence
    /\ engine_reset_highscore(e).sequence = e.sequence
    /\ engine_reset(e).sequence = <<>>

\* C27: within a session the sequence is append-only: every step leaves it
\* unchanged or appends exactly one token; it is emptied only by a start or a
\* stop (reset() on the engine).
C27_SequenceAppendOnly == [][C27_AppendOrReset]_vars /\ []C27_EngineAppendOnly

\* The second round has appended its token to the token of the first.
C27_Witness ==
  game_active /\ round = 2 /\ sequence = <<"Rot", "Blau">> /\ timer_id = "pending"

\* ---- C28 ----
\* C28: every token of the sequence is a key of the colour map, and a member
\* of active_words when that is not empty; active_words holds keys of the
\* colour map only; and the pool a round draws from is never empty: it is
\* active_words, or the whole colour map when no allowed word is valid.
C28_TokensInPalette ==
  engine.constructed =>
    /\ engine.active_words \subseteq DOMAIN color_map
    /\ \A i \in 1..Len(engine.sequence) :
         /\ engine.sequence[i] \in DOMAIN color_map
         /\ engine.active_words # {} => engine.sequence[i] \in engine.active_words
    /\ engine_pool(EngineSelf) # {}
    /\ engine_pool(EngineSelf) =
         (IF engine.active_words = {} THEN DOMAIN color_map ELSE engine.active_words)
    /\ \A word \in engine_pool(EngineSelf) :
         \A text_color \in engine_available_colors(EngineSelf, word) :
           LET e == prepare_next_round(EngineSelf, word, text_color) IN
             /\ e.returned.value.word = word
             /\ e.sequence[Len(e.sequence)] \in DOMAIN color_map

\* No allowed word was valid, and two rounds have been drawn from the whole
\* colour map.
C28_Witness ==
  /\ engine.constructed /\ engine.active_words = {}
  /\ engine.round = 2 /\ engine.sequence = <<"Gruen", "Rot">>

\* ---- C29 ----
\* The colours of the words of the pool other than the word drawn.
EligibleColors(pool, word) == {color_map[n] : n \in pool \ {word}}

AllColors == {color_map[n] : n \in DOMAIN color_map}

\* C29: no colour is eligible exactly when the pool is the one word drawn, and
\* then prepare_next_round draws the text colour from the colours of the whole
\* colour map; otherwise the text colour is the colour of a word of the pool
\* other than the word drawn. Stated on the colours a call can draw and on the
\* colour the last call returned.
C29_TextColorFallback ==
  engine.constructed =>
    LET pool == engine_pool(EngineSelf) IN
      /\ \A word \in pool :
           /\ EligibleColors(pool, word) = {} <=> pool = {word}
           /\ engine_available_colors(EngineSelf, word) =
                (IF pool = {word} THEN AllColors ELSE EligibleColors(pool, word))
      /\ returned.call = "prepare_next_round" =>
           LET word == returned.value.word IN
             /\ word \in pool
             /\ returned.value.text_color \in
                  (IF pool = {word} THEN AllColors ELSE EligibleColors(pool, word))
             /\ pool # {word} => returned.value.text_color # color_map[word]

\* A palette of one word, and a text colour that is not the colour of a word
\* of the palette.
C29_Witness ==
  /\ engine.constructed /\ engine.active_words = {"Gruen"}
  /\ returned.call = "prepare_next_round"
  /\ returned.value.word = "Gruen"
  /\ returned.value.text_color = color_map["Rot"]

\* ---- C30 ----
\* C30: the budget of round r is r * timer_factor seconds on the engine and
\* r * 3 seconds in the game (RoundBudget tenths of a second per round), it
\* does not decrease from one round to the next, and the countdown of the
\* round starts from exactly that value: next_round leaves the budget in
\* remaining_time, less the first tenth when the timer is on, its first tick
\* being taken at once.
C30_BudgetOfRound ==
  /\ RoundBudget = 10 * timer_factor
  /\ \A word \in Words : \A text_color \in TextColors(word) :
       LET e == prepare_next_round(EngineOfSession, word, text_color)
           before == IF round = 0 THEN 0
                     ELSE prepare_next_round([EngineOfSession EXCEPT !.round = round - 1],
                                             word, text_color).returned.value.time_budget
       IN /\ e.returned.value.time_budget = (round + 1) * timer_factor
          /\ before <= e.returned.value.time_budget
  /\ game_active =>
       \A word \in Words : \A text_color \in TextColors(word) :
         LET s == next_round(Self, word, text_color) IN
           /\ s.round = round + 1
           /\ s.remaining_time =
                s.round * RoundBudget - (IF timer_enabled THEN 1 ELSE 0)
           /\ s.remaining_time + (IF timer_enabled THEN 1 ELSE 0) >= round * RoundBudget
           /\ s.game_active
           /\ timer_enabled => s.timer_id = "pending"
  /\ (game_active /\ remaining_time > 0) => remaining_time <= round * RoundBudget

\* Round 2 has started its countdown: 6.0 s, less the tick taken at once.
C30_Witness ==
  /\ game_active /\ timer_enabled /\ round = 2
  /\ remaining_time = 2 * RoundBudget - 1
  /\ timer_id = "pending"

\* ---- C31 ----
\* The scores a caller may save: one and two digits.
SavedScores == 0..12

\* The file holds a bare non-negative integer as str() writes it.
BareInteger(content) ==
  /\ content # Missing
  /\ AllDigits(content)
  /\ content = IntToStr(DigitsVal(content))

C31_RoundTripWhenWritable ==
  /\ \A allowed_words \in AllowedWordChoices :
       LET e == engine_init(Missing, disk_writable, allowed_words) IN
         /\ disk_writable => e.highscore_file = <<"0">> /\ e.highscore = 0
         /\ ~disk_writable => e.highscore_file = Missing /\ e.highscore = 0
  /\ \A v \in SavedScores :
       LET e == engine_save_highscore(EngineSelf, v) IN
         /\ disk_writable => /\ BareInteger(e.highscore_file)
                             /\ _load_highscore(e.highscore_file) = v
         /\ ~disk_writable => e.highscore_file = highscore_file

C32_StaleCallIsNoOp ==
  ~game_active =>
    /\ \A word \in Words : \A text_color \in TextColors(word) :
         next_round(Self, word, text_color) = Self
    /\ update_timer(Self) = Self
    /\ _conceal_word(Self) = [Self EXCEPT !.hide_word_id = "None"]

\* A callback that fires with no game active leaves the progress, the
\* countdown, the highscore and the labels as they are and schedules nothing.
C32_StaleFiringKeeps ==
  (~game_active /\ (NextRoundFires \/ UpdateTimerFires \/ ConcealWordFires)) =>
    /\ UNCHANGED <<round, sequence, remaining_time, highscore, highscore_file,
                   game_active, score_label, word_label, musicVars>>
    /\ after_next_round' <= after_next_round
    /\ after_update_timer' <= after_update_timer
    /\ after_conceal_word' <= after_conceal_word
    /\ timer_id' # "pending" /\ hide_word_id' # "pending"

\* C32: a stale callback that fires while no game is active (after a stop or a
\* failure, before a new start) is a no-op: round, sequence, remaining time,
\* highscore and the active flag are unchanged and nothing is scheduled.
C32_StaleCallbackNoOp == []C32_StaleCallIsNoOp /\ [][C32_StaleFiringKeeps]_vars

\* A game stopped twice within the start delay: its two next_round callbacks
\* are pending with no game active.
C32_Witness ==
  ~game_active /\ word_label.kind = "Gestoppt" /\ after_next_round = 2 /\ round = 0

\* ---- C33 ----
\* C33: no round is skipped: a round answered correctly schedules one
\* next_round, and the same correct entry submitted again before that
\* next_round has run schedules no second one.
C33_NoSecondAdvance ==
  RoundInProgress =>
    \A input \in CorrectInputs(sequence) :
      LET once == submit_guess(Self, input)
          twice == submit_guess(once, input)
      IN /\ once.after_next_round = after_next_round + 1
         /\ twice.after_next_round = once.after_next_round
         /\ twice.round = round /\ twice.game_active

\* ---- C34 ----
\* The session after a flip of the timer switch.
Toggled == _toggle_timer([Self EXCEPT !.timer_enabled = ~@])

\* C34: with a game active (the start delay before round 1 and the gap after
\* a correct submission included) a flip of the timer switch, on or off, does
\* not run the failure transition: the game stays active, no solution is
\* shown and no score is settled.
C34_ToggleNeverFails ==
  game_active =>
    /\ Toggled.game_active
    /\ ~Failed(Toggled)
    /\ Toggled.word_label = word_label
    /\ Toggled.highscore = highscore /\ Toggled.score_label = score_label

\* The part that holds: from round 1 on, and whenever the switch goes off.
C34_ToggleSafeInRound ==
  (game_active /\ (round >= 1 \/ timer_enabled)) =>
    /\ Toggled.game_active
    /\ ~Failed(Toggled)
    /\ Toggled.word_label = word_label
    /\ Toggled.highscore = highscore /\ Toggled.score_label = score_label

\* ---- C35 ----
\* C35: at most one thread runs _music_loop at any time: _start_music starts
\* none while one started before is still running.
C35_OneMusicWorker == music_workers <= 1

\* ---- C36 ----
\* C36: at most one countdown tick is pending, it is the one timer_id names,
\* and none is pending while no game is active or the timer is switched off.
C36_OneTickPending ==
  /\ after_update_timer <= 1
  /\ (timer_id = "pending") <=> (after_update_timer = 1)
  /\ (~game_active \/ ~timer_enabled) => after_update_timer = 0

\* The countdown of a round answered correctly has been started again by the
\* timer switch: one tick is pending beside the next_round on its way.
C36_Witness ==
  /\ game_active /\ timer_enabled /\ round = 1 /\ after_next_round = 1
  /\ timer_id = "pending" /\ after_update_timer = 1

\* ---- C37 ----
\* The remaining time, in tenths of a second, is within the budget of the
\* round; a new round and a flip of the timer switch leave it so.
C37_WithinBudget ==
  /\ 0 <= remaining_time /\ remaining_time <= round * RoundBudget
  /\ game_active =>
       /\ 0 <= Toggled.remaining_time
       /\ Toggled.remaining_time <= round * RoundBudget
       /\ \A word \in Words : \A text_color \in TextColors(word) :
            LET s == next_round(Self, word, text_color) IN
              0 <= s.remaining_time /\ s.remaining_time <= s.round * RoundBudget

\* A tick takes one tenth from a positive remaining time, and at zero it ends
\* the round and leaves zero.
C37_TickTakesOneTenth ==
  UpdateTimerFires =>
    \/ remaining_time > 0 /\ remaining_time' = remaining_time - 1
    \/ remaining_time = 0 /\ remaining_time' = 0 /\ ~game_active'

\* C37: in every reachable state 0 <= remaining_time <= 3 * round seconds:
\* each tick decreases it by exactly one tenth, it never goes below zero, and
\* neither a new round nor a timer toggle sets it above the budget of the
\* round.
C37_RemainingTimeBounded == []C37_WithinBudget /\ [][C37_TickTakesOneTenth]_vars

\* The countdown of round 2 has reached zero and its last tick is pending.
C37_Witness ==
  /\ game_active /\ timer_enabled /\ round = 2
  /\ remaining_time = 0 /\ timer_id = "pending"

TypeOK ==
  /\ round \in 0..MaxRound
  /\ Len(sequence) <= MaxRound
  /\ timer_id \in HandleStates
  /\ hide_word_id \in HandleStates
  /\ remaining_time \in 0..(MaxRound * RoundBudget)
  /\ after_next_round \in 0..MaxPending
  /\ after_update_timer \in 0..1
  /\ after_conceal_word \in 0..1
  /\ highscore \in 0..MaxRound
  /\ music_thread \in {"None", "alive", "dead"}
  /\ music_stop_event \in BOOLEAN
  /\ music_mode \in MusicModes \cup {"None"}
  /\ music_process \in {"None", "running", "exited"}
  /\ music_workers + Len(after_finalize_music_loop) \in 0..MaxPending
====
